---- MODULE Spec2Model ----
(***************************************************************************)
(* State-machine model of the three MCP servers of the repository:         *)
(*   mcps/ea-memory/server.py   (memories.json, ea_remember .. ea_forget)  *)
(*   mcps/ea-journal/server.py  (one JSON array per UTC day, ea_log ..)    *)
(*   mcps/ea-prompts/server.py  (custom_prompts.json, built-in catalog)    *)
(* Strings whose characters matter (contents, tag strings, ids) are        *)
(* sequences of one-character strings.  An Optional[T] value is the empty  *)
(* sequence (None) or a one-element sequence <<v>>.                        *)
(***************************************************************************)
EXTENDS Integers, Sequences, FiniteSets, TLC

VARIABLES now, memfile, issued, forgotten, journal, logged,
          builtin_prompts, promptfile, last, inflight, overlapped

vars == <<now, memfile, issued, forgotten, journal, logged,
          builtin_prompts, promptfile, last, inflight, overlapped>>

\* the state of the services a step of one service leaves alone
memvars == <<memfile, issued, forgotten>>

jvars == <<journal, logged>>

pvars == <<builtin_prompts, promptfile>>

\* the calls that have loaded their file and not yet saved it, one slot per
\* server process; whether two such calls were ever under way together
cvars == <<inflight, overlapped>>

(* ---------------------------- bounds ----------------------------------- *)

\* number of ea_remember calls explored by SpecMemory
MaxRemember == 3
\* last clock tick explored by the ea-memory specifications
MaxMemNow == 1
\* number of ea_remember calls explored by SpecRecall
MaxRecall == 3
\* number of ea_remember calls explored by SpecRoundTrip
MaxRoundTrip == 2
\* number of ea_log calls explored by SpecJournal
MaxLog == 3
\* last clock tick explored by SpecJournal
MaxJournalNow == 3
\* number of ea_log calls explored by SpecReview
MaxReviewLog == 3
\* last clock tick explored by SpecReview
MaxReviewNow == 5
\* ea_log calls explored by SpecFaulty
MaxFaultLog == 2
\* last clock tick explored by SpecFaulty
MaxFaultNow == 3
\* ea_remember calls explored by SpecMemFaulty
MaxMemFault == 2
\* calls of each tool explored by SpecShared
MaxShared == 2
\* last clock tick explored by SpecShared
MaxSharedNow == 1
\* accepted ea_remember and ea_log calls explored by SpecValidation
MaxValid == 1
\* last clock tick explored by SpecPrompts
MaxPromptNow == 1

\* clock ticks per UTC day (resolution of the modelled wall clock)
TicksPerDay == 2

(* ------------------------- Optional values ----------------------------- *)

None == <<>>

Some(v) == <<v>>

(* ------------------------- string helpers ------------------------------ *)

\* str.lower() on one character of the modelled alphabet
LowerChar(ch) ==
    CASE ch = "A" -> "a"
      [] ch = "B" -> "b"
      [] ch = "C" -> "c"
      [] OTHER -> ch

\* str.lower()
Lower(s) == [i \in 1..Len(s) |-> LowerChar(s[i])]

\* the Python test  q in s  on strings
Contains(q, s) ==
    \E i \in 0..(Len(s) - Len(q)) : SubSeq(s, i + 1, i + Len(q)) = q

\* a slice that starts one element late
Slice_skip(s, lo, hi) == SubSeq(s, lo + 2, IF Len(s) < hi THEN Len(s) ELSE hi)

\* the slice s[lo:hi] for 0 <= lo and 0 <= hi
Slice(s, lo, hi) == SubSeq(s, lo + 1, IF Len(s) < hi THEN Len(s) ELSE hi)

\* the slice s[:n]
Prefix(s, n) == SubSeq(s, 1, IF Len(s) < n THEN Len(s) ELSE n)

RECURSIVE LStrip(_)
LStrip(s) == IF s # <<>> /\ Head(s) = " " THEN LStrip(Tail(s)) ELSE s

RECURSIVE RStrip(_)
RStrip(s) ==
    IF s # <<>> /\ s[Len(s)] = " " THEN RStrip(SubSeq(s, 1, Len(s) - 1)) ELSE s

\* str.strip()
Strip(s) == RStrip(LStrip(s))

\* str.split(","): the pieces between the commas, empty pieces included
RECURSIVE SplitComma(_, _, _)
SplitComma(s, cur, acc) ==
    IF s = <<>> THEN Append(acc, cur)
    ELSE IF Head(s) = "," THEN SplitComma(Tail(s), <<>>, Append(acc, cur))
    ELSE SplitComma(Tail(s), Append(cur, Head(s)), acc)

RECURSIVE SelectNonEmpty(_)
SelectNonEmpty(ps) ==
    IF ps = <<>> THEN <<>>
    ELSE IF Head(ps) = <<>> THEN SelectNonEmpty(Tail(ps))
    ELSE <<Head(ps)>> \o SelectNonEmpty(Tail(ps))

\* the set of elements of a sequence
Range(s) == {s[i] : i \in 1..Len(s)}

\* the subsequence of s at the indices satisfying Keep, order preserved
RECURSIVE FilterIdx(_, _, _)
FilterIdx(s, keep, i) ==
    IF i > Len(s) THEN <<>>
    ELSE IF i \in keep THEN <<s[i]>> \o FilterIdx(s, keep, i + 1)
    ELSE FilterIdx(s, keep, i + 1)

\* list.sort(): the stable sort of s, where lt[i, j] tells whether the key of
\* s[i] is strictly before the key of s[j] in the requested order.
\* Element i goes to the rank counting the elements that must precede it.
StableSort(s, lt) ==
    LET n == Len(s)
        rank(i) == 1 + Cardinality({j \in 1..n :
                        lt[j, i] \/ (~lt[i, j] /\ j < i)})
    IN  [r \in 1..n |-> s[CHOOSE i \in 1..n : rank(i) = r]]

(* ---------------------------- the clock -------------------------------- *)

\* datetime.isoformat() of the UTC clock reading: the date part and the
\* time-of-day part of the fixed-width ISO-8601 string
isoformat(t) == [date |-> t \div TicksPerDay, time |-> t % TicksPerDay]

\* string comparison  a < b  of two ISO-8601 timestamps
TsLess(a, b) == a.date < b.date \/ (a.date = b.date /\ a.time < b.time)

\* what reading a storage file can meet: text that parses ("ok"), text that is
\* not JSON (json.JSONDecodeError), a read the system refuses (IOError), bytes
\* that are not UTF-8 (read_text raises UnicodeDecodeError)
FileStates == {"ok", "invalid_json", "unreadable", "undecodable"}

\* the answer of an operation that an exception left
Raised(error) == [kind |-> "raised", error |-> error]

(* ======================== ea-memory service ============================ *)

DigitChars == <<"0", "1", "2", "3", "4", "5", "6", "7", "8", "9">>

RECURSIVE DigitsOf(_)
DigitsOf(n) ==
    IF n < 10 THEN <<DigitChars[n + 1]>>
    ELSE Append(DigitsOf(n \div 10), DigitChars[(n % 10) + 1])

RECURSIVE ZeroPad(_, _)
ZeroPad(ds, w) == IF Len(ds) >= w THEN ds ELSE ZeroPad(<<"0">> \o ds, w)

\* the format spec  {n:04d}
Format04d(n) == ZeroPad(DigitsOf(n), 4)

MemPrefix == <<"m", "e", "m", "_">>

DigitVal(ch) == CHOOSE d \in 0..9 : DigitChars[d + 1] = ch

RECURSIVE ParseInt(_)
ParseInt(ds) ==
    IF ds = <<>> THEN 0
    ELSE 10 * ParseInt(SubSeq(ds, 1, Len(ds) - 1)) + DigitVal(ds[Len(ds)])

\* the numeric suffix of a memory id
IdSuffix(id) == ParseInt(SubSeq(id, Len(MemPrefix) + 1, Len(id)))

EmptyStore == [memories |-> <<>>, next_id |-> 1]

\* a load that restarts the counter from the number of stored memories
load_memories_recount(f) ==
    IF f.st = "ok" THEN [f.data EXCEPT !.next_id = Len(f.data.memories) + 1]
    ELSE EmptyStore

\* a load that recovers the data of a file whatever its state
load_memories_salvaging(f) == IF f.st = "absent" THEN EmptyStore ELSE f.data

\* the except clause names JSONDecodeError and IOError: both give the empty
\* store, and so does a file that is not there
load_memories(f) == IF f.st = "ok" THEN f.data ELSE EmptyStore

\* UnicodeDecodeError is not named by the except clause: it leaves
\* load_memories and, no handler catching it, the operation
MemLoadRaises(f) == f.st = "undecodable"

save_memories(data) == [st |-> "ok", data |-> data]

\* an id taken from the number of stored memories instead of the counter
generate_id_count(data) ==
    [id |-> MemPrefix \o Format04d(Len(data.memories) + 1),
     data |-> [data EXCEPT !.next_id = @ + 1]]

\* returns the id and the store with the counter advanced
generate_id(data) ==
    [id |-> MemPrefix \o Format04d(data.next_id),
     data |-> [data EXCEPT !.next_id = @ + 1]]

\* a parse that keeps the case of the tags
parse_tags_nolower(tags_str) ==
    IF tags_str = None \/ tags_str[1] = <<>> THEN <<>>
    ELSE LET pieces == SplitComma(tags_str[1], <<>>, <<>>)
             stripped == [i \in 1..Len(pieces) |-> Strip(pieces[i])]
         IN  SelectNonEmpty(stripped)

parse_tags(tags_str) ==
    IF tags_str = None \/ tags_str[1] = <<>> THEN <<>>
    ELSE LET pieces == SplitComma(tags_str[1], <<>>, <<>>)
             stripped == [i \in 1..Len(pieces) |-> Strip(pieces[i])]
             kept == SelectNonEmpty(stripped)
         IN  [i \in 1..Len(kept) |-> Lower(kept[i])]

\* the tag filter of ea_recall and ea_list: any(t in mem_tags for t in filter_tags)
TagMatch(mem, filter_tags) ==
    filter_tags = <<>> \/ \E i \in 1..Len(filter_tags) : filter_tags[i] \in Range(mem.tags)

\* content[:100] plus "..." when the content is longer
ForgetPreviewLen == 100

Preview(content, n) ==
    IF Len(content) > n THEN Prefix(content, n) \o <<".", ".", ".">>
    ELSE Prefix(content, n)

DefaultImportance == 50

ea_remember(content, tags, importance) ==
    LET data == load_memories(memfile)
        tag_list == parse_tags(tags)
        imp == IF importance = None \/ importance[1] = 0
               THEN DefaultImportance ELSE importance[1]
        gen == generate_id(data)
        memory == [id |-> gen.id, content |-> content, tags |-> tag_list,
                   importance |-> imp, created_at |-> isoformat(now)]
        data2 == [gen.data EXCEPT !.memories = Append(@, memory)]
        args == [content |-> content, tags |-> tags, importance |-> importance]
        \* write_text on a file the system refuses to read may be refused too
        writes == IF memfile.st = "unreadable" THEN BOOLEAN ELSE {TRUE}
    IN  IF MemLoadRaises(memfile)
        THEN /\ last' = [op |-> "remember", args |-> args,
                         resp |-> Raised("UnicodeDecodeError")]
             /\ UNCHANGED <<now, memvars, jvars, pvars, cvars>>
        ELSE \E written \in writes :
               IF written
               THEN /\ memfile' = save_memories(data2)
                    /\ issued' = Append(issued, memory.id)
                    /\ UNCHANGED <<forgotten, jvars, pvars, cvars>>
                    /\ last' = [op |-> "remember", args |-> args,
                                resp |-> [kind |-> "remembered", id |-> memory.id,
                                          tags |-> tag_list, importance |-> imp,
                                          created |-> memory.created_at.date]]
                    /\ UNCHANGED now
               ELSE /\ last' = [op |-> "remember", args |-> args,
                                resp |-> Raised("OSError")]
                    /\ UNCHANGED <<now, memvars, jvars, pvars, cvars>>

\* the order the sort comment announces: importance, then newer first
RecallLess_datedesc(a, b) ==
    \/ (0 - a.importance) < (0 - b.importance)
    \/ (a.importance = b.importance /\ TsLess(b.created_at, a.created_at))

\* the sort key (-importance, created_at), compared ascending
RecallLess(a, b) ==
    \/ (0 - a.importance) < (0 - b.importance)
    \/ (a.importance = b.importance /\ TsLess(a.created_at, b.created_at))

\* the response of ea_recall on the loaded store
RecallResp(data, query, tags, limit) ==
    LET memories == data.memories
        filter_tags == parse_tags(tags)
        query_lower == Lower(query)
        keep == {i \in 1..Len(memories) :
                    /\ Contains(query_lower, Lower(memories[i].content))
                    /\ TagMatch(memories[i], filter_tags)}
        matched == FilterIdx(memories, keep, 1)
        results == StableSort(matched,
                     [i \in 1..Len(matched), j \in 1..Len(matched) |->
                         RecallLess(matched[i], matched[j])])
        total_matches == Len(results)
        shown == Prefix(results, limit)
    IN  IF memories = <<>> THEN [kind |-> "empty_store"]
        ELSE IF shown = <<>> THEN [kind |-> "no_match", query |-> query]
        ELSE [kind |-> "found", total |-> total_matches, results |-> shown,
              more |-> total_matches - Len(shown)]

ea_recall(query, tags, limit) ==
    /\ last' = [op |-> "recall",
                args |-> [query |-> query, tags |-> tags, limit |-> limit],
                resp |-> IF MemLoadRaises(memfile) THEN Raised("UnicodeDecodeError")
                         ELSE RecallResp(load_memories(memfile), query, tags, limit),
                after |-> IF last.op = "remember" THEN Some(last.args) ELSE None]
    /\ UNCHANGED <<now, memvars, jvars, pvars, cvars>>

ListLess(a, b) == TsLess(b.created_at, a.created_at)

\* the response of ea_list on the loaded store
ListResp(data, tags, limit, offset) ==
    LET memories == data.memories
        filter_tags == parse_tags(tags)
        keep == {i \in 1..Len(memories) : TagMatch(memories[i], filter_tags)}
        matched == FilterIdx(memories, keep, 1)
        results == StableSort(matched,
                     [i \in 1..Len(matched), j \in 1..Len(matched) |->
                         ListLess(matched[i], matched[j])])
        total_matches == Len(results)
        paginated == Slice(results, offset, offset + limit)
        has_more == (offset + Len(paginated)) < total_matches
    IN  IF memories = <<>> THEN [kind |-> "empty_store"]
        ELSE IF paginated = <<>>
             THEN IF offset > 0 THEN [kind |-> "no_more", total |-> total_matches]
                  ELSE [kind |-> "no_match", tags |-> tags]
        ELSE [kind |-> "table", rows |-> paginated, total |-> total_matches,
              next_offset |-> IF has_more THEN Some(offset + Len(paginated))
                              ELSE None]

ea_list(tags, limit, offset) ==
    /\ last' = [op |-> "list",
                args |-> [tags |-> tags, limit |-> limit, offset |-> offset],
                resp |-> IF MemLoadRaises(memfile) THEN Raised("UnicodeDecodeError")
                         ELSE ListResp(load_memories(memfile), tags, limit, offset)]
    /\ UNCHANGED <<now, memvars, jvars, pvars, cvars>>

\* list.pop() without the index: drops the last element
RemoveAt_last(s, i) == SubSeq(s, 1, Len(s) - 1)

\* list.pop(0): drops the first element
RemoveAt_first(s, i) == Tail(s)

\* list.pop(i)
RemoveAt(s, i) == SubSeq(s, 1, i - 1) \o SubSeq(s, i + 1, Len(s))

ea_forget(memory_id, confirm) ==
    LET args == [memory_id |-> memory_id, confirm |-> confirm]
        data == load_memories(memfile)
        hits == {i \in 1..Len(data.memories) : data.memories[i].id = memory_id}
    IN  IF ~confirm
        THEN /\ last' = [op |-> "forget", args |-> args,
                         resp |-> [kind |-> "confirm_required"]]
             /\ UNCHANGED <<now, memvars, jvars, pvars, cvars>>
        ELSE IF MemLoadRaises(memfile)
        THEN /\ last' = [op |-> "forget", args |-> args,
                         resp |-> Raised("UnicodeDecodeError")]
             /\ UNCHANGED <<now, memvars, jvars, pvars, cvars>>
        ELSE IF hits # {}
        THEN LET i == CHOOSE k \in hits : \A j \in hits : k <= j
                 removed == data.memories[i]
             IN  /\ memfile' = save_memories(
                        [data EXCEPT !.memories = RemoveAt(@, i)])
                 /\ last' = [op |-> "forget", args |-> args,
                             resp |-> [kind |-> "deleted", id |-> memory_id,
                                       preview |-> Preview(removed.content,
                                                           ForgetPreviewLen)]]
                 /\ forgotten' = forgotten \cup {memory_id}
                 /\ UNCHANGED <<now, issued, jvars, pvars, cvars>>
        ELSE /\ last' = [op |-> "forget", args |-> args,
                         resp |-> [kind |-> "not_found", id |-> memory_id]]
             /\ UNCHANGED <<now, memvars, jvars, pvars, cvars>>

(* ======================== ea-prompts service =========================== *)

CodeReview == <<"c", "o", "d", "e", "-", "r", "e", "v", "i", "e", "w">>

ExplainCode == <<"e", "x", "p", "l", "a", "i", "n", "-", "c", "o", "d", "e">>

WriteTests == <<"w", "r", "i", "t", "e", "-", "t", "e", "s", "t", "s">>

Refactor == <<"r", "e", "f", "a", "c", "t", "o", "r">>

Debug == <<"d", "e", "b", "u", "g">>

BuiltinNames == {CodeReview, ExplainCode, WriteTests, Refactor, Debug}

ArgCode == <<"c", "o", "d", "e">>

\* one argument of a built-in prompt
BuiltinArg(name, description, required) ==
    [name |-> name, description |-> description, required |-> required]

\* the module-level catalog; the template texts are kept as opaque strings
BUILTIN_PROMPTS ==
    [n \in BuiltinNames |->
        CASE n = CodeReview ->
               [name |-> n,
                description |-> "Review code for issues, bugs, and improvements",
                template |-> "template:code-review",
                arguments |-> <<BuiltinArg(ArgCode, "The code to review", TRUE)>>,
                builtin |-> TRUE]
          [] n = ExplainCode ->
               [name |-> n,
                description |-> "Explain what code does in plain English",
                template |-> "template:explain-code",
                arguments |-> <<BuiltinArg(ArgCode, "The code to explain", TRUE)>>,
                builtin |-> TRUE]
          [] n = WriteTests ->
               [name |-> n,
                description |-> "Generate test cases for code",
                template |-> "template:write-tests",
                arguments |-> <<BuiltinArg(ArgCode, "The code to test", TRUE)>>,
                builtin |-> TRUE]
          [] n = Refactor ->
               [name |-> n,
                description |-> "Suggest refactoring improvements",
                template |-> "template:refactor",
                arguments |-> <<BuiltinArg(ArgCode, "The code to refactor", TRUE)>>,
                builtin |-> TRUE]
          [] n = Debug ->
               [name |-> n,
                description |-> "Help debug an error or issue",
                template |-> "template:debug",
                arguments |->
                    <<BuiltinArg(<<"e", "r", "r", "o", "r">>,
                                 "The error message or problem description", TRUE),
                      BuiltinArg(ArgCode, "The relevant code", TRUE),
                      BuiltinArg(<<"s", "t", "e", "p", "s">>,
                                 "Steps to reproduce (optional)", FALSE)>>,
                builtin |-> TRUE]]

\* the built-in test left out
IsBuiltin_skipped(name, builtins) == FALSE

\* params.name in BUILTIN_PROMPTS
IsBuiltin(name, builtins) == name \in DOMAIN builtins

load_custom_prompts(f) == IF f.st = "ok" THEN f.prompts ELSE <<>>

save_custom_prompts(prompts) == [st |-> "ok", prompts |-> prompts]

\* an assignment that leaves a key that is already there as it is
DictUpdate_keep(d, e) ==
    [k \in DOMAIN d \cup DOMAIN e |-> IF k \in DOMAIN d THEN d[k] ELSE e[k]]

\* dict.update / item assignment: the keys of d overlaid with those of e
DictUpdate(d, e) ==
    [k \in DOMAIN d \cup DOMAIN e |-> IF k \in DOMAIN e THEN e[k] ELSE d[k]]

\* a deletion that empties the dict
DictDel_all(d, k) == [j \in {} |-> d[j]]

\* del d[k]
DictDel(d, k) == [j \in DOMAIN d \ {k} |-> d[j]]

\* the one-entry dict {k: v}
DictOne(k, v) == [j \in {k} |-> v]

get_all_prompts(builtins, f) == DictUpdate(builtins, load_custom_prompts(f))

\* the characters of prompt names in code-point order
NameChars ==
    <<"-", "0", "1", "2", "3", "4", "5", "6", "7", "8", "9",
      "a", "b", "c", "d", "e", "f", "g", "h", "i", "j", "k", "l", "m",
      "n", "o", "p", "q", "r", "s", "t", "u", "v", "w", "x", "y", "z">>

CharRank(ch) == CHOOSE i \in 1..Len(NameChars) : NameChars[i] = ch

\* string comparison  a < b
RECURSIVE StrLess(_, _)
StrLess(a, b) ==
    IF b = <<>> THEN FALSE
    ELSE IF a = <<>> THEN TRUE
    ELSE IF Head(a) # Head(b) THEN CharRank(Head(a)) < CharRank(Head(b))
    ELSE StrLess(Tail(a), Tail(b))

\* sorted(d.items()): the keys of a dict in ascending order
SortedKeys(d) ==
    LET n == Cardinality(DOMAIN d)
    IN  [r \in 1..n |->
            CHOOSE k \in DOMAIN d :
                Cardinality({j \in DOMAIN d : StrLess(j, k)}) = r - 1]

\* the argument list built from the comma-separated names
ParseArguments(arguments) ==
    IF arguments = None \/ arguments[1] = <<>> THEN <<>>
    ELSE LET pieces == SplitComma(arguments[1], <<>>, <<>>)
             stripped == [i \in 1..Len(pieces) |-> Strip(pieces[i])]
             kept == SelectNonEmpty(stripped)
         IN  [i \in 1..Len(kept) |->
                 [name |-> kept[i],
                  description |-> <<"Value for ", kept[i]>>,
                  required |-> TRUE]]

ArgNames(prompt) == [i \in 1..Len(prompt.arguments) |-> prompt.arguments[i].name]

ea_add_prompt(name, description, template, arguments) ==
    LET args == [name |-> name, description |-> description,
                 template |-> template, arguments |-> arguments]
        arg_list == ParseArguments(arguments)
        prompt == [name |-> name, description |-> description,
                   template |-> template, arguments |-> arg_list,
                   builtin |-> FALSE, created_at |-> isoformat(now)]
        custom == load_custom_prompts(promptfile)
    IN  IF IsBuiltin(name, builtin_prompts)
        THEN /\ last' = [op |-> "add_prompt", args |-> args,
                         resp |-> [kind |-> "error_builtin", name |-> name]]
             /\ UNCHANGED <<now, memvars, jvars, pvars, cvars>>
        ELSE /\ promptfile' = save_custom_prompts(
                                  DictUpdate(custom, DictOne(name, prompt)))
             /\ last' = [op |-> "add_prompt", args |-> args,
                         resp |-> [kind |-> "added", name |-> name,
                                   description |-> description,
                                   arguments |-> ArgNames(prompt)],
                         existed |-> name \in DOMAIN custom]
             /\ UNCHANGED <<now, memvars, jvars, builtin_prompts, cvars>>

\* one entry of the listing
ListedPrompt(prompt, include_templates) ==
    [name |-> prompt.name, description |-> prompt.description,
     arguments |-> ArgNames(prompt),
     template |-> IF include_templates THEN Some(prompt.template) ELSE None]

ListPromptsResp(builtins, f, include_templates) ==
    LET all_prompts == get_all_prompts(builtins, f)
        names == SortedKeys(all_prompts)
        shown == FilterIdx(names,
                    {i \in 1..Len(names) : all_prompts[names[i]].builtin}, 1)
        custom == load_custom_prompts(f)
        cnames == SortedKeys(custom)
    IN  IF DOMAIN all_prompts = {} THEN [kind |-> "no_prompts"]
        ELSE [kind |-> "prompts",
              builtin |-> [i \in 1..Len(shown) |->
                  ListedPrompt(all_prompts[shown[i]], include_templates)],
              custom |-> [i \in 1..Len(cnames) |->
                  ListedPrompt(custom[cnames[i]], include_templates)],
              total_builtin |-> Cardinality(DOMAIN builtins),
              total_custom |-> Cardinality(DOMAIN custom)]

ea_list_prompts(include_templates) ==
    /\ last' = [op |-> "list_prompts",
                args |-> [include_templates |-> include_templates],
                resp |-> ListPromptsResp(builtin_prompts, promptfile,
                                         include_templates)]
    /\ UNCHANGED <<now, memvars, jvars, pvars, cvars>>

ea_remove_prompt(name, confirm) ==
    LET args == [name |-> name, confirm |-> confirm]
        custom == load_custom_prompts(promptfile)
    IN  IF ~confirm
        THEN /\ last' = [op |-> "remove_prompt", args |-> args,
                         resp |-> [kind |-> "confirm_required"]]
             /\ UNCHANGED <<now, memvars, jvars, pvars, cvars>>
        ELSE IF IsBuiltin(name, builtin_prompts)
        THEN /\ last' = [op |-> "remove_prompt", args |-> args,
                         resp |-> [kind |-> "error_builtin", name |-> name]]
             /\ UNCHANGED <<now, memvars, jvars, pvars, cvars>>
        ELSE IF name \notin DOMAIN custom
        THEN /\ last' = [op |-> "remove_prompt", args |-> args,
                         resp |-> [kind |-> "not_found", name |-> name]]
             /\ UNCHANGED <<now, memvars, jvars, pvars, cvars>>
        ELSE /\ promptfile' = save_custom_prompts(DictDel(custom, name))
             /\ last' = [op |-> "remove_prompt", args |-> args,
                         resp |-> [kind |-> "removed", name |-> name]]
             /\ UNCHANGED <<now, memvars, jvars, builtin_prompts, cvars>>

(* --------------------- SpecMemory: ids, forget, list ------------------- *)

NoCall == [op |-> "none"]

\* the server processes that may share one storage directory
Instances == {1, 2}

\* a process that is between calls
Idle == [pc |-> "idle"]

Init ==
    /\ now = 0
    /\ memfile = [st |-> "absent", data |-> EmptyStore]
    /\ issued = <<>>
    /\ forgotten = {}
    /\ journal = <<>>
    /\ logged = <<>>
    /\ builtin_prompts = BUILTIN_PROMPTS
    /\ promptfile = [st |-> "absent", prompts |-> <<>>]
    /\ last = NoCall
    /\ inflight = [i \in Instances |-> Idle]
    /\ overlapped = FALSE

\* the wall clock advances between calls; the answer of the last call has
\* been delivered by then, so last always describes a call made at now
Tick(bound) ==
    /\ now < bound
    /\ now' = now + 1
    /\ last' = NoCall
    /\ UNCHANGED <<memvars, jvars, pvars, cvars>>

TagA == <<"a">>

\* ids a caller may name: the ids ea_remember can issue, and a stray one
ForgetIds == {MemPrefix \o Format04d(k) : k \in 1..MaxRemember} \cup {<<"x">>}

MemTick == Tick(MaxMemNow)

MemRemember ==
    /\ Len(issued) < MaxRemember
    /\ \E t \in {None, Some(TagA)} : ea_remember(<<"a">>, t, Some(50))

MemRecall == \E lim \in {1, 10} : ea_recall(<<"a">>, None, lim)

MemList ==
    \E t \in {None, Some(TagA)}, lim \in {1, 2}, off \in {0, 2} :
        ea_list(t, lim, off)

MemForget == \E id \in ForgetIds, c \in BOOLEAN : ea_forget(id, c)

NextMemory == MemTick \/ MemRemember \/ MemRecall \/ MemList \/ MemForget

SpecMemory == Init /\ [][NextMemory]_vars

(* ------------- SpecRecall: the order of ea_recall's results ------------ *)

RecRemember ==
    /\ Len(issued) < MaxRecall
    /\ \E imp \in {None, Some(50), Some(90)} : ea_remember(<<"a">>, None, imp)

RecRecall == \E q \in {<<"a">>, <<"A">>, <<"b">>}, lim \in {2, 10} : ea_recall(q, None, lim)

RecList == ea_list(None, 20, 0)

RecForget ==
    \E id \in {MemPrefix \o Format04d(k) : k \in 1..2}, c \in BOOLEAN :
        ea_forget(id, c)

NextRecall == Tick(MaxMemNow) \/ RecRemember \/ RecRecall \/ RecList \/ RecForget

SpecRecall == Init /\ [][NextRecall]_vars

(* ------- SpecRoundTrip: what ea_remember stores, ea_recall returns ----- *)

\* validated RememberInput records (strings arrive stripped of outer blanks)
TagsAB == <<"a", ",", "b">>

TagsMessy == <<"B", ",", ",", " ", "a">>

RememberInputs ==
    { [content |-> <<"a">>, tags |-> Some(TagsAB), importance |-> Some(70)],
      [content |-> <<"A", "b">>, tags |-> None, importance |-> None],
      [content |-> <<"c">>, tags |-> Some(TagsMessy), importance |-> Some(90)],
      [content |-> <<"C">>, tags |-> Some(<<>>), importance |-> Some(1)] }

RtRemember ==
    /\ Len(issued) < MaxRoundTrip
    /\ \E r \in RememberInputs : ea_remember(r.content, r.tags, r.importance)

RtRecall ==
    \E r \in RememberInputs, t \in {None, Some(<<"b">>)}, lim \in {1, 10} :
        ea_recall(r.content, t, lim)

RtList == \E t \in {None, Some(<<"B">>)} : ea_list(t, 20, 0)

RtForget == \E c \in BOOLEAN : ea_forget(MemPrefix \o Format04d(1), c)

NextRoundTrip == Tick(MaxMemNow) \/ RtRemember \/ RtRecall \/ RtList \/ RtForget

SpecRoundTrip == Init /\ [][NextRoundTrip]_vars

(* ======================== ea-journal service =========================== *)

\* EntryType, in declaration order
EntryTypes == <<"work", "decision", "blocker", "note", "win", "learning">>

\* the same values as sorted() orders them
SortedTypes == <<"blocker", "decision", "learning", "note", "win", "work">>

\* str.upper() of an entry type
UpperType(t) ==
    CASE t = "work" -> "WORK"
      [] t = "decision" -> "DECISION"
      [] t = "blocker" -> "BLOCKER"
      [] t = "note" -> "NOTE"
      [] t = "win" -> "WIN"
      [] t = "learning" -> "LEARNING"

\* date.strftime('%Y-%m-%d'): the UTC day of a clock reading; it names the file
strftime_date(t) == t \div TicksPerDay

\* now - timedelta(days=i)
minus_days(t, i) == t - i * TicksPerDay

\* every date named by the file of the first day
get_journal_file_oneday(date) == 0

\* a journal directory maps the dates that have a file to the file
get_journal_file(date) == strftime_date(date)

\* a load that recovers the entries of a file whatever its state
load_journal_salvaging(dir, date) ==
    LET f == get_journal_file(date)
    IN  IF f \in DOMAIN dir THEN dir[f].entries ELSE <<>>

\* a load that never finds the day's file
load_journal_missing(dir, date) == <<>>

\* the except clause names JSONDecodeError and IOError: both give [], and so
\* does a file that is not there
load_journal(dir, date) ==
    LET f == get_journal_file(date)
    IN  IF f \in DOMAIN dir /\ dir[f].st = "ok" THEN dir[f].entries ELSE <<>>

\* UnicodeDecodeError is a ValueError that the except clause does not name:
\* it leaves load_journal and, no handler catching it, the operation
LoadRaises(dir, date) ==
    LET f == get_journal_file(date)
    IN  f \in DOMAIN dir /\ dir[f].st = "undecodable"

save_journal(dir, date, entries) ==
    LET f == get_journal_file(date)
    IN  [k \in DOMAIN dir \cup {f} |->
            IF k = f THEN [st |-> "ok", entries |-> entries] ELSE dir[k]]

\* str.split("-")
RECURSIVE SplitDash(_, _, _)
SplitDash(s, cur, acc) ==
    IF s = <<>> THEN Append(acc, cur)
    ELSE IF Head(s) = "-" THEN SplitDash(Tail(s), <<>>, Append(acc, cur))
    ELSE SplitDash(Tail(s), Append(cur, Head(s)), acc)

AllDigits(s) == \A i \in 1..Len(s) : s[i] \in Range(DigitChars)

IsLeap(y) == (y % 4 = 0 /\ y % 100 # 0) \/ y % 400 = 0

DaysInMonth(y, m) ==
    IF m = 2 THEN (IF IsLeap(y) THEN 29 ELSE 28)
    ELSE IF m \in {4, 6, 9, 11} THEN 30 ELSE 31

\* datetime.strptime(v, "%Y-%m-%d"): four digits, one or two, one or two,
\* naming a day of the calendar; None stands for ValueError
strptime(v) ==
    LET ps == SplitDash(v, <<>>, <<>>)
    IN  IF Len(ps) # 3 THEN None
        ELSE IF \/ Len(ps[1]) # 4
                \/ Len(ps[2]) \notin {1, 2}
                \/ Len(ps[3]) \notin {1, 2}
                \/ ~AllDigits(ps[1] \o ps[2] \o ps[3]) THEN None
        ELSE LET y == ParseInt(ps[1])
                 m == ParseInt(ps[2])
                 d == ParseInt(ps[3])
             IN  IF y < 1 \/ m \notin 1..12 THEN None
                 ELSE IF d \notin 1..DaysInMonth(y, m) THEN None
                 ELSE Some([year |-> y, month |-> m, day |-> d])

\* the year of day 0 of the model's clock: day 0 is January 1 of it
EpochYear == 2024

RECURSIVE DaysBefore(_, _)
DaysBefore(y, m) == IF m = 1 THEN 0 ELSE DaysBefore(y, m - 1) + DaysInMonth(y, m - 1)

\* the day a parsed date names, counted as strftime_date counts the clock's
\* days (exact within the epoch year, where the explored days lie)
DayOf(ymd) == (ymd.year - EpochYear) * 366 + DaysBefore(ymd.year, ymd.month) + ymd.day - 1

\* datetime.strptime(date_str, "%Y-%m-%d"): midnight of the named day
parse_date(date_str) == DayOf(strptime(date_str)[1]) * TicksPerDay

CharCode(ch) ==
    CASE ch = "x" -> 120
      [] ch = "y" -> 121
      [] ch = "z" -> 122
      [] OTHER -> 63

\* hash(content) % 10000: some fixed function of the content (the value only
\* decorates the entry id)
RECURSIVE HashMod(_)
HashMod(content) ==
    IF content = <<>> THEN 0
    ELSE (31 * HashMod(SubSeq(content, 1, Len(content) - 1))
            + CharCode(content[Len(content)])) % 10000

LogPreviewLen == 100

format_entry(entry) ==
    [time |-> entry.timestamp.time, type |-> UpperType(entry.type),
     project |-> entry.project, content |-> entry.content]

ea_log(content, entry_type, project) ==
    LET entry == [id |-> [hms |-> isoformat(now).time,
                          suffix |-> Format04d(HashMod(content))],
                  content |-> content, type |-> entry_type,
                  project |-> project, timestamp |-> isoformat(now)]
        entries == load_journal(journal, now)
        f == get_journal_file(now)
        args == [content |-> content, entry_type |-> entry_type,
                 project |-> project]
        \* write_text on a file the system refuses to read may be refused too
        writes == IF f \in DOMAIN journal /\ journal[f].st = "unreadable"
                  THEN BOOLEAN ELSE {TRUE}
    IN  IF LoadRaises(journal, now)
        THEN /\ last' = [op |-> "log", args |-> args,
                         resp |-> Raised("UnicodeDecodeError")]
             /\ UNCHANGED <<now, memvars, jvars, pvars, cvars>>
        ELSE \E written \in writes :
               IF written
               THEN /\ journal' = save_journal(journal, now, Append(entries, entry))
                    /\ logged' = Append(logged, entry)
                    /\ last' = [op |-> "log", args |-> args,
                                resp |-> [kind |-> "logged",
                                          type |-> UpperType(entry_type),
                                          time |-> isoformat(now).time,
                                          project |-> project,
                                          preview |-> Preview(content, LogPreviewLen)]]
                    /\ UNCHANGED <<now, memvars, pvars, cvars>>
               ELSE /\ last' = [op |-> "log", args |-> args,
                                resp |-> Raised("OSError")]
                    /\ UNCHANGED <<now, memvars, jvars, pvars, cvars>>

\* the entries of one type, in order
OfType(entries, t) ==
    FilterIdx(entries, {i \in 1..Len(entries) : entries[i].type = t}, 1)

\* the listed types that occur among the entries, in the listed order
TypesPresent(order, entries) ==
    FilterIdx(order, {i \in 1..Len(order) : OfType(entries, order[i]) # <<>>}, 1)

TodayResp(dir, t, entry_type) ==
    LET loaded == load_journal(dir, t)
        entries == IF entry_type # None THEN OfType(loaded, entry_type[1])
                   ELSE loaded
        counted == TypesPresent(SortedTypes, entries)
        shown == TypesPresent(EntryTypes, entries)
    IN  IF LoadRaises(dir, t) THEN Raised("UnicodeDecodeError")
        ELSE IF loaded = <<>> THEN [kind |-> "no_entries", date |-> strftime_date(t)]
        ELSE IF entries = <<>> THEN [kind |-> "none_of_type", type |-> entry_type[1]]
        ELSE [kind |-> "report", date |-> strftime_date(t),
              counts |-> [i \in 1..Len(counted) |->
                            <<counted[i], Len(OfType(entries, counted[i]))>>],
              sections |-> [i \in 1..Len(shown) |->
                  [type |-> shown[i],
                   entries |-> LET es == OfType(entries, shown[i])
                               IN [k \in 1..Len(es) |-> format_entry(es[k])]]]]

ea_today(entry_type) ==
    /\ last' = [op |-> "today", args |-> [entry_type |-> entry_type],
                resp |-> TodayResp(journal, now, entry_type)]
    /\ UNCHANGED <<now, memvars, jvars, pvars, cvars>>

\* a window in which a given date wins over days
ReviewDates_datefirst(t, date, days) ==
    IF date # None THEN <<parse_date(date[1])>>
    ELSE IF days # None /\ days[1] # 0
    THEN [i \in 1..days[1] |-> minus_days(t, i - 1)]
    ELSE <<t>>

\* the window of ea_review, as clock readings
ReviewDates(t, date, days) ==
    IF days # None /\ days[1] # 0
    THEN [i \in 1..days[1] |-> minus_days(t, i - 1)]
    ELSE IF date # None THEN <<parse_date(date[1])>>
    ELSE <<t>>

\* the entries of the files of the window, each stamped with its file's date
RECURSIVE Collect(_, _, _)
Collect(dir, dates, i) ==
    IF i > Len(dates) THEN <<>>
    ELSE LET entries == load_journal(dir, dates[i])
         IN  [k \in 1..Len(entries) |->
                 [entry |-> entries[k], _date |-> strftime_date(dates[i])]]
             \o Collect(dir, dates, i + 1)

\* an order that puts the older entry first
ReviewLess_asc(a, b) == TsLess(a.entry.timestamp, b.entry.timestamp)

\* the sort key timestamp, compared descending
ReviewLess(a, b) == TsLess(b.entry.timestamp, a.entry.timestamp)

\* the output lines: a date header whenever the date changes, then the entry
RECURSIVE RenderReview(_, _, _)
RenderReview(all_entries, i, current_date) ==
    IF i > Len(all_entries) THEN <<>>
    ELSE LET entry_date == all_entries[i]._date
             line == [line |-> "entry", text |-> format_entry(all_entries[i].entry)]
         IN  IF Some(entry_date) # current_date
             THEN <<[line |-> "header", date |-> entry_date], line>>
                  \o RenderReview(all_entries, i + 1, Some(entry_date))
             ELSE <<line>> \o RenderReview(all_entries, i + 1, current_date)

ReviewResp(dir, t, date, days, entry_type) ==
    LET dates == ReviewDates(t, date, days)
        collected == Collect(dir, dates, 1)
        filtered == IF entry_type # None
                    THEN FilterIdx(collected,
                           {i \in 1..Len(collected) :
                               collected[i].entry.type = entry_type[1]}, 1)
                    ELSE collected
        all_entries == StableSort(filtered,
                         [i \in 1..Len(filtered), j \in 1..Len(filtered) |->
                             ReviewLess(filtered[i], filtered[j])])
    IN  IF \E i \in 1..Len(dates) : LoadRaises(dir, dates[i])
        THEN Raised("UnicodeDecodeError")
        ELSE IF collected = <<>>
        THEN IF days # None /\ days[1] # 0
             THEN [kind |-> "no_entries_days", days |-> days[1]]
             ELSE [kind |-> "no_entries_date", date |-> strftime_date(dates[1])]
        ELSE IF filtered = <<>> THEN [kind |-> "none_of_type", type |-> entry_type[1]]
        ELSE [kind |-> "entries",
              title |-> IF days # None /\ days[1] # 0 THEN [days |-> days[1]]
                        ELSE [date |-> strftime_date(dates[1])],
              total |-> Len(all_entries),
              lines |-> RenderReview(all_entries, 1, None)]

\* a review that writes the stamped entries back to their files
ea_review_saving(date, days, entry_type) ==
    /\ last' = [op |-> "review",
                args |-> [date |-> date, days |-> days, entry_type |-> entry_type],
                resp |-> ReviewResp(journal, now, date, days, entry_type)]
    /\ journal' = [f \in DOMAIN journal |->
                     [journal[f] EXCEPT !.entries =
                         [k \in 1..Len(@) |->
                             [x \in DOMAIN @[k] \cup {"_date"} |->
                                 IF x = "_date" THEN f ELSE @[k][x]]]]]
    /\ UNCHANGED <<now, memvars, logged, pvars, cvars>>

ea_review(date, days, entry_type) ==
    /\ last' = [op |-> "review",
                args |-> [date |-> date, days |-> days, entry_type |-> entry_type],
                resp |-> ReviewResp(journal, now, date, days, entry_type)]
    /\ UNCHANGED <<now, memvars, jvars, pvars, cvars>>

\* the distinct values of a sequence, in order of first occurrence
RECURSIVE DistinctOf(_)
DistinctOf(s) ==
    IF s = <<>> THEN <<>>
    ELSE LET front == DistinctOf(SubSeq(s, 1, Len(s) - 1))
         IN  IF s[Len(s)] \in Range(front) THEN front ELSE Append(front, s[Len(s)])

\* entry.get("project") or "General"
ProjectLabel(entry) ==
    IF entry.project = None \/ entry.project[1] = "" THEN "General"
    ELSE entry.project[1]

SummaryPreviews == 5

SummaryPreviewLen == 100

SummaryResp(dir, t, days) ==
    LET dates == [i \in 1..days |-> minus_days(t, i - 1)]
        active == {i \in 1..days : load_journal(dir, dates[i]) # <<>>}
        collected == Collect(dir, dates, 1)
        all_entries == [i \in 1..Len(collected) |-> collected[i].entry]
        types == TypesPresent(EntryTypes, all_entries)
        labels == DistinctOf([i \in 1..Len(all_entries) |->
                                 ProjectLabel(all_entries[i])])
        count(l) == Cardinality({i \in 1..Len(all_entries) :
                                    ProjectLabel(all_entries[i]) = l})
        by_project == StableSort(labels,
                        [i \in 1..Len(labels), j \in 1..Len(labels) |->
                            (0 - count(labels[i])) < (0 - count(labels[j]))])
        previews(ty) == LET es == Prefix(OfType(all_entries, ty), SummaryPreviews)
                        IN  [k \in 1..Len(es) |->
                                Prefix(es[k].content, SummaryPreviewLen)]
    IN  IF \E i \in 1..days : LoadRaises(dir, dates[i])
        THEN Raised("UnicodeDecodeError")
        ELSE IF all_entries = <<>> THEN [kind |-> "no_entries_days", days |-> days]
        ELSE [kind |-> "summary",
              start_date |-> strftime_date(minus_days(t, days - 1)),
              end_date |-> strftime_date(t),
              active_days |-> Cardinality(active),
              total |-> Len(all_entries),
              by_type |-> [i \in 1..Len(types) |->
                             <<types[i], Len(OfType(all_entries, types[i]))>>],
              projects |-> IF Len(labels) > 1 \/ labels[1] # "General"
                           THEN [i \in 1..Len(by_project) |->
                                   <<by_project[i], count(by_project[i])>>]
                           ELSE <<>>,
              wins |-> previews("win"),
              blockers |-> previews("blocker"),
              learnings |-> previews("learning")]

ea_summary(days) ==
    /\ last' = [op |-> "summary", args |-> [days |-> days],
                resp |-> SummaryResp(journal, now, days)]
    /\ UNCHANGED <<now, memvars, jvars, pvars, cvars>>

StatusResp(dir, t) ==
    LET today_entries == load_journal(dir, t)
        types == DistinctOf([i \in 1..Len(today_entries) |-> today_entries[i].type])
    IN  IF LoadRaises(dir, t) THEN Raised("UnicodeDecodeError")
        ELSE [kind |-> "status", today |-> strftime_date(t),
              type_counts |-> [i \in 1..Len(types) |->
                                 <<types[i], Len(OfType(today_entries, types[i]))>>],
              total_days |-> Cardinality(DOMAIN dir)]

ea_journal_status ==
    /\ last' = [op |-> "journal_status", args |-> <<>>,
                resp |-> StatusResp(journal, now)]
    /\ UNCHANGED <<now, memvars, jvars, pvars, cvars>>

(* ------------- SpecJournal: ea_log calls within and across days -------- *)

\* validated LogInput records
LogInputs ==
    { [content |-> <<"x">>, entry_type |-> "note", project |-> None],
      [content |-> <<"y", "z">>, entry_type |-> "win", project |-> Some("p")] }

JTick == Tick(MaxJournalNow)

JLog ==
    /\ Len(logged) < MaxLog
    /\ \E r \in LogInputs : ea_log(r.content, r.entry_type, r.project)

JToday == \E ty \in {None, Some("win")} : ea_today(ty)

JReview ==
    \E days \in {None, Some(2)}, ty \in {None, Some("win")} :
        ea_review(None, days, ty)

JSummary == ea_summary(2)

NextJournal == JTick \/ JLog \/ JToday \/ JReview \/ JSummary \/ ea_journal_status

SpecJournal == Init /\ [][NextJournal]_vars

(* ------------- SpecReview: the window and the order of ea_review ------- *)

\* date strings a caller may send
Date_2024_01_01 == <<"2", "0", "2", "4", "-", "0", "1", "-", "0", "1">>

Date_2024_01_02 == <<"2", "0", "2", "4", "-", "0", "1", "-", "0", "2">>

Date_2024_1_1 == <<"2", "0", "2", "4", "-", "1", "-", "1">>

Date_2024_13_01 == <<"2", "0", "2", "4", "-", "1", "3", "-", "0", "1">>

Date_slashes == <<"0", "1", "/", "0", "1", "/", "2", "0", "2", "4">>

Date_2024_02_30 == <<"2", "0", "2", "4", "-", "0", "2", "-", "3", "0">>

\* validated ReviewInput records
ReviewInputs ==
    { [date |-> None, days |-> None, entry_type |-> None],
      [date |-> Some(Date_2024_01_02), days |-> None, entry_type |-> None],
      [date |-> None, days |-> Some(2), entry_type |-> None],
      [date |-> None, days |-> Some(3), entry_type |-> None],
      [date |-> Some(Date_2024_01_01), days |-> Some(2), entry_type |-> None] }

RvTick == Tick(MaxReviewNow)

RvLog ==
    /\ Len(logged) < MaxReviewLog
    /\ ea_log(<<"x">>, "work", Some("p"))

RvToday == ea_today(None)

RvReview == \E r \in ReviewInputs : ea_review(r.date, r.days, r.entry_type)

RvSummary == ea_summary(3)

NextReview == RvTick \/ RvLog \/ RvToday \/ RvReview \/ RvSummary \/ ea_journal_status

SpecReview == Init /\ [][NextReview]_vars

(* ------ SpecFaulty: daily files that turn unreadable or malformed ------ *)

\* the storage directory is outside the program: a file that parsed can be
\* found damaged at the next read
Damage ==
    /\ \E d \in DOMAIN journal, st \in FileStates \ {"ok"} :
          /\ journal[d].st = "ok"
          /\ journal' = [journal EXCEPT ![d].st = st]
    /\ last' = NoCall
    /\ UNCHANGED <<now, memvars, logged, pvars, cvars>>

FTick == Tick(MaxFaultNow)

FLog ==
    /\ Len(logged) < MaxFaultLog
    /\ ea_log(<<"x">>, "note", None)

FToday == ea_today(None)

FReview == \E days \in {None, Some(2)} : ea_review(None, days, None)

FSummary == ea_summary(2)

NextFaulty ==
    FTick \/ Damage \/ FLog \/ FToday \/ FReview \/ FSummary \/ ea_journal_status

SpecFaulty == Init /\ [][NextFaulty]_vars

(* ------ SpecMemFaulty: memories.json turned unreadable or malformed ---- *)

\* the file is outside the program: a file that parsed can be found damaged
\* at the next read
MemDamage ==
    /\ memfile.st = "ok"
    /\ \E st \in FileStates \ {"ok"} : memfile' = [memfile EXCEPT !.st = st]
    /\ last' = NoCall
    /\ UNCHANGED <<now, issued, forgotten, jvars, pvars, cvars>>

MfRemember ==
    /\ Len(issued) < MaxMemFault
    /\ \E c \in {<<"a">>, <<"b">>} : ea_remember(c, None, None)

MfRecall == ea_recall(<<"a">>, None, 10)

MfList == ea_list(None, 20, 0)

MfForget == \E c \in BOOLEAN : ea_forget(MemPrefix \o Format04d(1), c)

NextMemFaulty == MemDamage \/ MfRemember \/ MfRecall \/ MfList \/ MfForget

SpecMemFaulty == Init /\ [][NextMemFaulty]_vars

(* ------ SpecShared: two server processes over one storage directory ---- *)

\* Within one process a tool handler has no await: it runs from its load to
\* its save before the next call starts (the handler actions above).  Two
\* processes give no such order: each call is a load step and a save step,
\* and the steps of the two processes interleave.

\* another process is between its load and its save
OthersBusy(i) == \E j \in Instances \ {i} : inflight[j].pc # "idle"

\* the calls of one tool that are under way
Started(op) ==
    Cardinality({i \in Instances : inflight[i].pc # "idle" /\ inflight[i].op = op})

\* ea_log from reading the clock to load_journal
LogLoad(i, content, entry_type, project) ==
    /\ inflight[i] = Idle
    /\ inflight' = [inflight EXCEPT ![i] =
          [pc |-> "loaded", op |-> "log", t |-> now,
           args |-> [content |-> content, entry_type |-> entry_type,
                     project |-> project],
           entries |-> load_journal(journal, now)]]
    /\ overlapped' = (overlapped \/ OthersBusy(i))
    /\ UNCHANGED <<now, memvars, jvars, pvars, last>>

\* ea_log from entries.append(entry) to its return
LogSave(i) ==
    /\ inflight[i].pc = "loaded"
    /\ inflight[i].op = "log"
    /\ LET c == inflight[i]
           entry == [id |-> [hms |-> isoformat(c.t).time,
                             suffix |-> Format04d(HashMod(c.args.content))],
                     content |-> c.args.content, type |-> c.args.entry_type,
                     project |-> c.args.project, timestamp |-> isoformat(c.t)]
       IN  /\ journal' = save_journal(journal, c.t, Append(c.entries, entry))
           /\ logged' = Append(logged, entry)
           /\ last' = [op |-> "log", args |-> c.args,
                       resp |-> [kind |-> "logged",
                                 type |-> UpperType(c.args.entry_type),
                                 time |-> isoformat(c.t).time,
                                 project |-> c.args.project,
                                 preview |-> Preview(c.args.content, LogPreviewLen)]]
    /\ inflight' = [inflight EXCEPT ![i] = Idle]
    /\ UNCHANGED <<now, memvars, pvars, overlapped>>

\* ea_remember up to load_memories
RememberLoad(i, content, tags, importance) ==
    /\ inflight[i] = Idle
    /\ inflight' = [inflight EXCEPT ![i] =
          [pc |-> "loaded", op |-> "remember",
           args |-> [content |-> content, tags |-> tags,
                     importance |-> importance],
           data |-> load_memories(memfile)]]
    /\ overlapped' = (overlapped \/ OthersBusy(i))
    /\ UNCHANGED <<now, memvars, jvars, pvars, last>>

\* ea_remember from generate_id to its return
RememberSave(i) ==
    /\ inflight[i].pc = "loaded"
    /\ inflight[i].op = "remember"
    /\ LET c == inflight[i]
           tag_list == parse_tags(c.args.tags)
           imp == IF c.args.importance = None \/ c.args.importance[1] = 0
                  THEN DefaultImportance ELSE c.args.importance[1]
           gen == generate_id(c.data)
           memory == [id |-> gen.id, content |-> c.args.content,
                      tags |-> tag_list, importance |-> imp,
                      created_at |-> isoformat(now)]
           data2 == [gen.data EXCEPT !.memories = Append(@, memory)]
       IN  /\ memfile' = save_memories(data2)
           /\ issued' = Append(issued, memory.id)
           /\ last' = [op |-> "remember", args |-> c.args,
                       resp |-> [kind |-> "remembered", id |-> memory.id,
                                 tags |-> tag_list, importance |-> imp,
                                 created |-> memory.created_at.date]]
    /\ inflight' = [inflight EXCEPT ![i] = Idle]
    /\ UNCHANGED <<now, forgotten, jvars, pvars, overlapped>>

ShTick == Tick(MaxSharedNow)

\* the validated LogInput record each process sends
SharedLogInput(i) ==
    IF i = 1 THEN [content |-> <<"x">>, entry_type |-> "note", project |-> None]
    ELSE [content |-> <<"y">>, entry_type |-> "win", project |-> Some("p")]

ShLogLoad ==
    /\ Len(logged) + Started("log") < MaxShared
    /\ \E i \in Instances :
          LogLoad(i, SharedLogInput(i).content, SharedLogInput(i).entry_type,
                  SharedLogInput(i).project)

ShLogSave == \E i \in Instances : LogSave(i)

ShRememberLoad ==
    /\ Len(issued) + Started("remember") < MaxShared
    /\ \E i \in Instances : RememberLoad(i, <<"a">>, None, None)

ShRememberSave == \E i \in Instances : RememberSave(i)

NextShared ==
    ShTick \/ ShLogLoad \/ ShLogSave \/ ShRememberLoad \/ ShRememberSave

SpecShared == Init /\ [][NextShared]_vars

(* ------------------------------ SpecPrompts ---------------------------- *)

MyPrompt == <<"m", "y", "-", "p", "r", "o", "m", "p", "t">>

X2 == <<"x", "2">>

\* names a caller may give: the built-in ones and two that are free
PromptNames == BuiltinNames \cup {MyPrompt, X2}

PTick == Tick(MaxPromptNow)

\* template texts and argument strings of validated AddPromptInput records
AddTemplates ==
    { [template |-> "template:one", arguments |-> None],
      [template |-> "template:two {code} {ctx}",
       arguments |-> Some(<<"c", "o", "d", "e", ",", " ", "c", "t", "x">>)] }

PAdd ==
    \E name \in PromptNames, t \in AddTemplates :
        ea_add_prompt(name, "A custom prompt", t.template, t.arguments)

PList == \E include_templates \in BOOLEAN : ea_list_prompts(include_templates)

PRemove == \E name \in PromptNames, confirm \in BOOLEAN : ea_remove_prompt(name, confirm)

NextPrompts == PTick \/ PAdd \/ PList \/ PRemove

SpecPrompts == Init /\ [][NextPrompts]_vars

(* ---------- input models: what reaches a handler, what does not -------- *)

\* The server builds the tool's pydantic model from the raw arguments before
\* it calls the handler; a ValidationError ends the call there.  An input
\* model below is None for a ValidationError, else the validated record
\* (str_strip_whitespace: string fields arrive stripped).  Opaque texts
\* (description, template) are taken within their length limits.

LowerLetters ==
    {"a", "b", "c", "d", "e", "f", "g", "h", "i", "j", "k", "l", "m",
     "n", "o", "p", "q", "r", "s", "t", "u", "v", "w", "x", "y", "z"}

\* a name check that lets every name through
validate_name_any(v) == TRUE

\* re.match(r'^[a-z][a-z0-9-]*$', v)
validate_name(v) ==
    /\ v # <<>>
    /\ v[1] \in LowerLetters
    /\ \A i \in 2..Len(v) : v[i] \in LowerLetters \cup Range(DigitChars) \cup {"-"}

NameMinLen == 2

NameMaxLen == 50

AddPromptInput(raw) ==
    LET name == Strip(raw.name)
    IN  IF Len(name) < NameMinLen \/ Len(name) > NameMaxLen THEN None
        ELSE IF ~validate_name(name) THEN None
        ELSE Some([raw EXCEPT !.name = name])

\* ReviewInput.validate_date
validate_date(v) == v = None \/ strptime(v[1]) # None

EntryTypeValues == Range(EntryTypes)

ReviewInput(raw) ==
    LET date == IF raw.date = None THEN None ELSE Some(Strip(raw.date[1]))
    IN  IF ~validate_date(date) THEN None
        ELSE IF raw.days # None /\ raw.days[1] \notin 1..365 THEN None
        ELSE IF raw.entry_type # None /\ raw.entry_type[1] \notin EntryTypeValues
             THEN None
        ELSE Some([raw EXCEPT !.date = date])

LogInput(raw) ==
    LET content == Strip(raw.content)
    IN  IF Len(content) < 1 \/ Len(content) > 5000 THEN None
        ELSE IF raw.entry_type \notin EntryTypeValues THEN None
        ELSE Some([raw EXCEPT !.content = content])

RememberInput(raw) ==
    LET content == Strip(raw.content)
    IN  IF Len(content) < 1 \/ Len(content) > 10000 THEN None
        ELSE IF raw.importance # None /\ raw.importance[1] \notin 1..100 THEN None
        ELSE Some([raw EXCEPT !.content = content])

\* the call ends with the ValidationError: the handler never starts
Rejected(op, raw) ==
    /\ last' = [op |-> op, args |-> raw, resp |-> [kind |-> "validation_error"]]
    /\ UNCHANGED <<now, memvars, jvars, pvars, cvars>>

call_remember(raw) ==
    LET params == RememberInput(raw)
    IN  IF params = None THEN Rejected("remember", raw)
        ELSE ea_remember(params[1].content, params[1].tags, params[1].importance)

call_log(raw) ==
    LET params == LogInput(raw)
    IN  IF params = None THEN Rejected("log", raw)
        ELSE ea_log(params[1].content, params[1].entry_type, params[1].project)

call_review(raw) ==
    LET params == ReviewInput(raw)
    IN  IF params = None THEN Rejected("review", raw)
        ELSE ea_review(params[1].date, params[1].days, params[1].entry_type)

call_add_prompt(raw) ==
    LET params == AddPromptInput(raw)
    IN  IF params = None THEN Rejected("add_prompt", raw)
        ELSE ea_add_prompt(params[1].name, params[1].description,
                           params[1].template, params[1].arguments)

(* ------------- SpecValidation: raw arguments, good and bad ------------- *)

RawRemember ==
    { [content |-> <<"a">>, tags |-> None, importance |-> imp] :
          imp \in {None, Some(0), Some(101)} }
      \cup { [content |-> <<" ">>, tags |-> None, importance |-> None] }

RawLog ==
    { [content |-> <<"x">>, entry_type |-> "note", project |-> None],
      [content |-> <<"x">>, entry_type |-> "bogus", project |-> None],
      [content |-> <<>>, entry_type |-> "note", project |-> None] }

RawReview ==
    { [date |-> Some(dt), days |-> None, entry_type |-> None] :
          dt \in {Date_2024_01_01, Date_2024_1_1, Date_2024_13_01,
                  Date_slashes, Date_2024_02_30} }
      \cup { [date |-> None, days |-> Some(n), entry_type |-> None] :
                 n \in {0, 2, 366} }
      \cup { [date |-> None, days |-> None, entry_type |-> Some("bogus")] }

\* one letter more than max_length allows
LongName == [i \in 1..(NameMaxLen + 1) |-> "a"]

RawNames ==
    { MyPrompt, <<" ", "x", "2", " ">>, <<"M", "y">>, <<"2", "x">>, <<"x">>,
      <<"m", "y", "_", "p">>, LongName }

RawAdd ==
    { [name |-> n, description |-> "A custom prompt",
       template |-> "template:one", arguments |-> None] : n \in RawNames }

VRemember ==
    \E raw \in RawRemember :
        /\ RememberInput(raw) = None \/ Len(issued) < MaxValid
        /\ call_remember(raw)

VLog ==
    \E raw \in RawLog :
        /\ LogInput(raw) = None \/ Len(logged) < MaxValid
        /\ call_log(raw)

VReview == \E raw \in RawReview : call_review(raw)

VAdd == \E raw \in RawAdd : call_add_prompt(raw)

VRemove == ea_remove_prompt(MyPrompt, TRUE)

NextValidation == VRemember \/ VLog \/ VReview \/ VAdd \/ VRemove

SpecValidation == Init /\ [][NextValidation]_vars

(* ============================ properties =============================== *)

\* the store as the next operation loads it
Stored == load_memories(memfile).memories

StoredIds == {Stored[i].id : i \in 1..Len(Stored)}

\* C2: the k-th ea_remember is assigned "mem_" followed by k zero-padded to
\* four digits, whatever ea_forget calls came in between: the ids go up by
\* one and no id is issued twice.
C2_IdMonotonic ==
    \A k \in 1..Len(issued) :
        /\ Len(issued[k]) = 8
        /\ SubSeq(issued[k], 1, 4) = MemPrefix
        /\ \A i \in 5..8 : issued[k][i] \in Range(DigitChars)
        /\ IdSuffix(issued[k]) = k
        /\ \A j \in 1..Len(issued) : j # k => issued[j] # issued[k]

\* an ea_remember that follows a confirmed deletion has just been answered
C2_Witness ==
    /\ last.op = "remember"
    /\ Len(issued) = 3
    /\ forgotten # {}
    /\ Len(Stored) < Len(issued)

\* C3: next_id exceeds the numeric suffix of every stored memory id, and no
\* step (remember, recall, list, forget, or the load each of them does)
\* makes next_id smaller.
C3_NextIdAbove ==
    \A i \in 1..Len(Stored) :
        load_memories(memfile).next_id > IdSuffix(Stored[i].id)

C3_NextIdInvariant ==
    /\ []C3_NextIdAbove
    /\ [][load_memories(memfile').next_id >= load_memories(memfile).next_id]_vars

\* a memory was deleted and the counter stands above the ids still stored
C3_Witness ==
    /\ last.op = "forget"
    /\ last.resp.kind = "deleted"
    /\ Stored # <<>>
    /\ load_memories(memfile).next_id = 4

\* C4: ea_forget with confirm=false changes nothing in the store and answers
\* with the request for confirmation, whatever the id; with confirm=true on a
\* stored id it removes that memory, and no later ea_list shows it.
C4_Gate ==
    (last'.op = "forget" /\ ~last'.args.confirm)
        => (memfile' = memfile /\ last'.resp.kind = "confirm_required")

C4_Removes ==
    (/\ last'.op = "forget"
     /\ last'.args.confirm
     /\ last'.args.memory_id \in StoredIds)
        => /\ last'.resp.kind = "deleted"
           /\ last'.args.memory_id \notin
                {load_memories(memfile').memories[i].id :
                    i \in 1..Len(load_memories(memfile').memories)}
           /\ Len(load_memories(memfile').memories) = Len(Stored) - 1

C4_ListExcludes ==
    (last.op = "list" /\ last.resp.kind = "table")
        => \A i \in 1..Len(last.resp.rows) : last.resp.rows[i].id \notin forgotten

C4_ConfirmationGate ==
    /\ []C4_ListExcludes
    /\ [][C4_Gate /\ C4_Removes]_vars

\* an ea_list answered with a table after a confirmed deletion
C4_Witness ==
    /\ last.op = "list"
    /\ last.resp.kind = "table"
    /\ forgotten # {}
    /\ Len(Stored) >= 2

\* C19: ea_forget with confirm=true on a stored id removes that one memory
\* and leaves every other memory, their order and next_id as they were; on
\* an id that is not stored it answers not-found and leaves the store as it
\* was.
C19_Decision ==
    (last'.op = "forget" /\ last'.args.confirm) =>
        LET id == last'.args.memory_id
            after == load_memories(memfile')
        IN  IF id \in StoredIds
            THEN /\ last'.resp.kind = "deleted"
                 /\ last'.resp.id = id
                 /\ after.memories
                      = FilterIdx(Stored, {i \in 1..Len(Stored) : Stored[i].id # id}, 1)
                 /\ Len(after.memories) = Len(Stored) - 1
                 /\ after.next_id = load_memories(memfile).next_id
            ELSE /\ last'.resp.kind = "not_found"
                 /\ memfile' = memfile

C19_ForgetExactlyOne == [][C19_Decision]_vars

\* the second of three memories was deleted: the first and the third are
\* left, in that order, and the counter still stands at 4
C19_Witness ==
    /\ last.op = "forget"
    /\ last.resp.kind = "deleted"
    /\ last.args.memory_id = MemPrefix \o Format04d(2)
    /\ [i \in 1..Len(Stored) |-> IdSuffix(Stored[i].id)] = <<1, 3>>
    /\ load_memories(memfile).next_id = 4

\* a confirmed ea_forget of an id that is not stored was answered not-found
\* while the store holds memories
C19_WitnessNotFound ==
    /\ last.op = "forget"
    /\ last.args.confirm
    /\ last.resp.kind = "not_found"
    /\ Stored # <<>>

\* C21: when memories.json is unreadable or malformed as ea_remember runs,
\* the store is taken as empty with next_id 1: the call is answered with
\* mem_0001, an id issued before, and the saved file holds the new memory
\* alone with next_id 2.  (A save the system refuses is left aside.)
C21_Decision ==
    (/\ last'.op = "remember"
     /\ memfile.st \in FileStates \ {"ok"}
     /\ ~(last'.resp.kind = "raised" /\ last'.resp.error = "OSError"))
        => /\ last'.resp.kind = "remembered"
           /\ last'.resp.id = MemPrefix \o Format04d(1)
           /\ last'.resp.id \in Range(issued)
           /\ memfile'.st = "ok"
           /\ memfile'.data.next_id = 2
           /\ Len(memfile'.data.memories) = 1
           /\ memfile'.data.memories[1].id = last'.resp.id
           /\ memfile'.data.memories[1].content = last'.args.content

C21_DamagedStoreRestarts == [][C21_Decision]_vars

\* the second ea_remember was answered with the id of the first, and the
\* file holds the second memory alone
C21_IdReissued ==
    /\ last.op = "remember"
    /\ last.resp.kind = "remembered"
    /\ issued = <<MemPrefix \o Format04d(1), MemPrefix \o Format04d(1)>>
    /\ Len(Stored) = 1
    /\ load_memories(memfile).next_id = 2

\* C6: for every tag filter and limit L, the pages of ea_list at offsets
\* 0, L, 2L, ... up to the first empty page, put end to end, are the whole
\* tag-filtered list newest first: every matching memory once, none missing.
RECURSIVE Pages(_, _, _, _)
Pages(data, tags, limit, offset) ==
    LET r == ListResp(data, tags, limit, offset)
    IN  IF r.kind = "table"
        THEN r.rows \o Pages(data, tags, limit, offset + limit)
        ELSE <<>>

\* the memories a tag filter selects
Selected(tags) ==
    LET wanted == Range(parse_tags(tags))
    IN  {i \in 1..Len(Stored) :
            wanted = {} \/ (wanted \cap Range(Stored[i].tags)) # {}}

PageFilters == {None, Some(<<"a">>), Some(<<"b">>)}

PageLimits == 1..3

C6_PaginationComplete ==
    \A tags \in PageFilters, limit \in PageLimits :
        LET all == Pages(load_memories(memfile), tags, limit, 0)
        IN  /\ Len(all) = Cardinality(Selected(tags))
            /\ Range(all) = {Stored[i] : i \in Selected(tags)}
            /\ \A i, j \in 1..Len(all) :
                  i < j => ~TsLess(all[i].created_at, all[j].created_at)

\* a store of three memories created at different times, some tagged, so
\* that limit 1 and limit 2 need several pages and the filter drops a memory
C6_Witness ==
    /\ Len(Stored) = 3
    /\ Cardinality(Selected(Some(<<"a">>))) = 2
    /\ Stored[1].created_at # Stored[3].created_at
    /\ last.op = "list"
    /\ last.args.offset > 0
    /\ last.resp.kind = "table"

\* the ids of a result list, as numbers
ResultNums(rs) == [i \in 1..Len(rs) |-> IdSuffix(rs[i].id)]

RecallFound == last.op = "recall" /\ last.resp.kind = "found"

C8_NewerFirst ==
    RecallFound =>
        LET rs == last.resp.results
        IN  \A i, j \in 1..Len(rs) :
              i < j =>
                /\ rs[i].importance >= rs[j].importance
                /\ rs[i].importance = rs[j].importance =>
                     ~TsLess(rs[i].created_at, rs[j].created_at)

\* C9: after ea_remember(c, t, i) on a store with no other memory whose
\* content contains c, ea_recall(query=c) returns exactly one result, with
\* content c, the tags parsed from t in order and importance i.
ExpectedTags(t) ==
    CASE t = Some(TagsAB) -> << <<"a">>, <<"b">> >>
      [] t = Some(TagsMessy) -> << <<"b">>, <<"a">> >>
      [] OTHER -> <<>>

ExpectedImportance(i) == IF i = None THEN 50 ELSE i[1]

\* ea_recall(query=c) answered right after ea_remember(content=c, ...)
RecallAfterRemember ==
    /\ last.op = "recall"
    /\ last.after # None
    /\ last.args.query = last.after[1].content
    /\ last.args.tags = None

\* what the claim promises about the answer
RoundTripAnswer ==
    LET r == last.after[1]
    IN  /\ last.resp.kind = "found"
        /\ last.resp.total = 1
        /\ Len(last.resp.results) = 1
        /\ last.resp.results[1].content = r.content
        /\ last.resp.results[1].tags = ExpectedTags(r.tags)
        /\ last.resp.results[1].importance = ExpectedImportance(r.importance)

\* the claim as stated: "contains" read as the substring test
C9_RoundTripAsStated ==
    (/\ RecallAfterRemember
     /\ \A k \in 1..(Len(Stored) - 1) :
           ~Contains(last.after[1].content, Stored[k].content))
        => RoundTripAnswer

\* the claim as amended: no other memory contains c when case is ignored
C9_RoundTrip ==
    (/\ RecallAfterRemember
     /\ \A k \in 1..(Len(Stored) - 1) :
           ~Contains(Lower(last.after[1].content), Lower(Stored[k].content)))
        => RoundTripAnswer

\* the round trip of a tagged memory next to an unrelated stored memory
C9_Witness ==
    /\ RecallAfterRemember
    /\ Len(Stored) = 2
    /\ last.after[1].tags = Some(TagsMessy)
    /\ \A k \in 1..(Len(Stored) - 1) :
           ~Contains(Lower(last.after[1].content), Lower(Stored[k].content))
    /\ RoundTripAnswer

(* ------------------------------ ea-journal ----------------------------- *)

\* the entries the ea_log calls of one UTC day built, in call order
LoggedOn(d) ==
    FilterIdx(logged, {i \in 1..Len(logged) : logged[i].timestamp.date = d}, 1)

CallDays == {logged[i].timestamp.date : i \in 1..Len(logged)}

IsPrefix(s, t) == Len(s) <= Len(t) /\ SubSeq(t, 1, Len(s)) = s

\* C1: starting from no file for the day, after N ea_log calls on one UTC day
\* the day's file holds exactly the N entries of those calls in call order,
\* and a later call leaves the entries of the earlier calls as they were.
C1_FileIsCallLog ==
    /\ DOMAIN journal = CallDays
    /\ \A d \in CallDays :
          journal[d].st = "ok" /\ journal[d].entries = LoggedOn(d)

C1_EarlierKept ==
    \A d \in DOMAIN journal :
        /\ d \in DOMAIN journal'
        /\ IsPrefix(journal[d].entries, journal'[d].entries)

C1_AppendOnly == []C1_FileIsCallLog /\ [][C1_EarlierKept]_vars

\* the third ea_log call of one day has been answered
C1_Witness ==
    /\ last.op = "log"
    /\ \E d \in DOMAIN journal :
          /\ Len(journal[d].entries) = 3
          /\ journal[d].entries[1] # journal[d].entries[3]

\* the directory without the files that do not parse
Healthy(dir) == [d \in {k \in DOMAIN dir : dir[k].st = "ok"} |-> dir[d]]

\* C11: when a day's file is missing, unreadable or malformed, ea_today,
\* ea_review and ea_summary answer as they would if that day had no entries:
\* nothing is raised and the other days of the window are reported.
C11_FaultTolerantReads ==
    /\ last.op = "today" =>
          last.resp = TodayResp(Healthy(journal), now, last.args.entry_type)
    /\ last.op = "review" =>
          last.resp = ReviewResp(Healthy(journal), now, last.args.date,
                                 last.args.days, last.args.entry_type)
    /\ last.op = "summary" =>
          last.resp = SummaryResp(Healthy(journal), now, last.args.days)
    /\ last.op \in {"today", "review", "summary"} => last.resp.kind # "raised"

\* C12: two processes sharing the directory can interleave load, load, save,
\* save on one file and lose an update (two ea_log of one day, or two
\* ea_remember); as long as calls run end to end, none under way while
\* another is, every answered ea_log and ea_remember is in its file.
C12_EndToEndLosesNothing ==
    ~overlapped =>
        /\ DOMAIN journal = CallDays
        /\ \A d \in CallDays : journal[d].entries = LoggedOn(d)
        /\ [i \in 1..Len(Stored) |-> Stored[i].id] = issued

\* both races have run: two ea_log calls of one day were answered and the
\* day's file holds one entry; two ea_remember calls were answered and the
\* store holds one memory
C12_Witness ==
    /\ overlapped
    /\ \A i \in Instances : inflight[i] = Idle
    /\ Len(logged) = 2
    /\ logged[1].timestamp.date = logged[2].timestamp.date
    /\ Len(journal[logged[1].timestamp.date].entries) = 1
    /\ Len(issued) = 2
    /\ Len(Stored) = 1

\* the keys ea_log gives an entry
EntryFields == {"id", "content", "type", "project", "timestamp"}

ReadOps == {"today", "review", "summary", "journal_status"}

C14_ParsedKept ==
    \A d \in DOMAIN journal :
        journal[d].st = "ok" =>
            /\ d \in DOMAIN journal'
            /\ IsPrefix(journal[d].entries, journal'[d].entries)

C14_ReadsWriteNothing == last'.op \in ReadOps => journal' = journal

C14_NoStampStored ==
    \A d \in DOMAIN journal :
        \A i \in 1..Len(journal[d].entries) :
            DOMAIN journal[d].entries[i] = EntryFields

C15_TimestampMatchesFile ==
    \A d \in DOMAIN journal :
        \A i \in 1..Len(journal[d].entries) :
            journal[d].entries[i].timestamp.date = d

\* ea_log has been answered on the second day, after ea_log calls on the
\* first: both days' files hold entries
C15_Witness ==
    /\ last.op = "log"
    /\ strftime_date(now) = 1
    /\ DOMAIN journal = {0, 1}
    /\ Len(journal[0].entries) + Len(journal[1].entries) = 3

\* C20: when today's file exists and its text does not parse, ea_log takes
\* the day as empty and writes the file anew with the new entry alone: the
\* entries the file held are gone.
C20_Overwrite ==
    LET f == strftime_date(now)
    IN  (/\ last'.op = "log"
         /\ f \in DOMAIN journal
         /\ journal[f].st = "invalid_json")
            => /\ last'.resp.kind = "logged"
               /\ journal'[f].st = "ok"
               /\ Len(journal'[f].entries) = 1
               /\ journal'[f].entries[1] = logged'[Len(logged')]
               /\ journal'[f].entries[1].content = last'.args.content
               /\ \A d \in DOMAIN journal \ {f} : journal'[d] = journal[d]

ReviewOfDays == last.op = "review" /\ last.args.days # None

\* the days of the window of the answered call
WindowDays == {strftime_date(now) - i : i \in 0..(last.args.days[1] - 1)}

\* the entries of a day's file that the call's type filter lets through
Wanted(d) ==
    IF d \notin DOMAIN journal THEN <<>>
    ELSE IF last.args.entry_type = None THEN journal[d].entries
    ELSE OfType(journal[d].entries, last.args.entry_type[1])

HeaderLines(lines) == {i \in 1..Len(lines) : lines[i].line = "header"}

EntryLines(lines) == {i \in 1..Len(lines) : lines[i].line = "entry"}

\* the header an entry line stands under
HeaderOf(lines, i) ==
    CHOOSE h \in HeaderLines(lines) :
        h < i /\ \A g \in HeaderLines(lines) : g < i => g <= h

\* two sequences hold the same elements the same number of times
SameBag(s, t) ==
    /\ Len(s) = Len(t)
    /\ \A x \in Range(s) \cup Range(t) :
          Cardinality({i \in 1..Len(s) : s[i] = x})
            = Cardinality({i \in 1..Len(t) : t[i] = x})

C10_ReviewUnion ==
    ReviewOfDays =>
        IF last.resp.kind # "entries"
        THEN \A d \in WindowDays : Wanted(d) = <<>>
        ELSE LET lines == last.resp.lines
                 hs == HeaderLines(lines)
                 es == EntryLines(lines)
                 under(d) == FilterIdx(lines,
                               {i \in es : lines[HeaderOf(lines, i)].date = d}, 1)
             IN  /\ 1 \in hs
                 /\ \A g, h \in hs : g < h => lines[g].date > lines[h].date
                 /\ {lines[h].date : h \in hs}
                      = {d \in WindowDays : Wanted(d) # <<>>}
                 /\ \A d \in WindowDays :
                       SameBag([k \in 1..Len(under(d)) |-> under(d)[k].text],
                               [k \in 1..Len(Wanted(d)) |-> format_entry(Wanted(d)[k])])
                 /\ \A i, j \in es :
                       i < j =>
                         \/ lines[HeaderOf(lines, i)].date > lines[HeaderOf(lines, j)].date
                         \/ /\ lines[HeaderOf(lines, i)].date = lines[HeaderOf(lines, j)].date
                            /\ lines[i].text.time >= lines[j].text.time
                 /\ last.resp.total = Cardinality(es)

\* the scenario of the claim: entries on three consecutive days, reviewed
\* with days=3 on the third day, come back under three date headers
C10_Witness ==
    /\ ReviewOfDays
    /\ last.args.days = Some(3)
    /\ last.args.entry_type = None
    /\ strftime_date(now) = 2
    /\ last.resp.kind = "entries"
    /\ [i \in HeaderLines(last.resp.lines) |-> last.resp.lines[i].date]
         = (1 :> 2) @@ (3 :> 1) @@ (5 :> 0)

\* two entries of one day logged at different times come back newest first
C10_WitnessSameDay ==
    /\ ReviewOfDays
    /\ last.resp.kind = "entries"
    /\ \E i \in EntryLines(last.resp.lines) :
          /\ i + 1 \in EntryLines(last.resp.lines)
          /\ last.resp.lines[i].text.time > last.resp.lines[i + 1].text.time

\* the days C18 gives the answered ea_review call
C18_Window ==
    IF last.args.days # None
    THEN {strftime_date(now) - i : i \in 0..(last.args.days[1] - 1)}
    ELSE IF last.args.date # None
    THEN {DayOf(strptime(last.args.date[1])[1])}
    ELSE {strftime_date(now)}

\* C18: ea_review takes as its window the days consecutive days ending today
\* when days is given, date or no date; else the single day date names;
\* else today.  What it returns is what the files of the window hold: every
\* header is a window day with entries, the lines under it are that day's
\* entries, and no entry of a file outside the window is returned.
C18_WindowChoice ==
    last.op = "review" =>
        IF last.resp.kind # "entries"
        THEN \A d \in C18_Window : Wanted(d) = <<>>
        ELSE LET lines == last.resp.lines
                 under(d) == FilterIdx(lines,
                               {i \in EntryLines(lines) :
                                   lines[HeaderOf(lines, i)].date = d}, 1)
             IN  /\ 1 \in HeaderLines(lines)
                 /\ {lines[h].date : h \in HeaderLines(lines)}
                      = {d \in C18_Window : Wanted(d) # <<>>}
                 /\ \A d \in C18_Window :
                       SameBag([k \in 1..Len(under(d)) |-> under(d)[k].text],
                               [k \in 1..Len(Wanted(d)) |-> format_entry(Wanted(d)[k])])
                 /\ last.resp.title = IF last.args.days # None
                                      THEN [days |-> last.args.days[1]]
                                      ELSE [date |-> CHOOSE d \in C18_Window : TRUE]

\* on the third day, with entries in the files of all three days, a call with
\* days=2 and the first day as date returns the third and the second day
C18_Witness ==
    /\ last.op = "review"
    /\ last.args.days = Some(2)
    /\ last.args.date = Some(Date_2024_01_01)
    /\ strftime_date(now) = 2
    /\ \A d \in {0, 1, 2} : d \in DOMAIN journal /\ journal[d].entries # <<>>
    /\ last.resp.kind = "entries"
    /\ {last.resp.lines[h].date : h \in HeaderLines(last.resp.lines)} = {1, 2}

\* on the third day a call with the second day as date returns that day only
C18_WitnessDate ==
    /\ last.op = "review"
    /\ last.args.days = None
    /\ last.args.date = Some(Date_2024_01_02)
    /\ strftime_date(now) = 2
    /\ \A d \in {0, 1, 2} : d \in DOMAIN journal /\ journal[d].entries # <<>>
    /\ last.resp.kind = "entries"
    /\ {last.resp.lines[h].date : h \in HeaderLines(last.resp.lines)} = {1}

(* --------------------------- input validation -------------------------- *)

\* the raw arguments that break a constraint of their input model
InvalidRemember ==
    { [content |-> <<"a">>, tags |-> None, importance |-> Some(0)],
      [content |-> <<"a">>, tags |-> None, importance |-> Some(101)],
      [content |-> <<" ">>, tags |-> None, importance |-> None] }

InvalidLog ==
    { [content |-> <<"x">>, entry_type |-> "bogus", project |-> None],
      [content |-> <<>>, entry_type |-> "note", project |-> None] }

InvalidReview ==
    { [date |-> Some(Date_2024_13_01), days |-> None, entry_type |-> None],
      [date |-> Some(Date_slashes), days |-> None, entry_type |-> None],
      [date |-> Some(Date_2024_02_30), days |-> None, entry_type |-> None],
      [date |-> None, days |-> Some(0), entry_type |-> None],
      [date |-> None, days |-> Some(366), entry_type |-> None],
      [date |-> None, days |-> None, entry_type |-> Some("bogus")] }

InvalidAdd ==
    { [name |-> n, description |-> "A custom prompt",
       template |-> "template:one", arguments |-> None] :
          n \in { <<"M", "y">>, <<"2", "x">>, <<"x">>, <<"m", "y", "_", "p">>,
                  [i \in 1..51 |-> "a"] } }

\* the call was refused and no file and no record of a stored element changed
RefusedUntouched ==
    /\ last'.resp.kind = "validation_error"
    /\ memfile' = memfile
    /\ journal' = journal
    /\ promptfile' = promptfile
    /\ issued' = issued
    /\ logged' = logged

\* C13: a call whose input fails validation (malformed review date,
\* add_prompt name not matching ^[a-z][a-z0-9-]*$, field out of range or
\* outside its enum) is refused before the handler touches a storage file:
\* every such step is a rejection that leaves the three stores as they were.
C13_InvalidRejected ==
    [][/\ \A raw \in InvalidRemember : call_remember(raw) => RefusedUntouched
       /\ \A raw \in InvalidLog : call_log(raw) => RefusedUntouched
       /\ \A raw \in InvalidReview : call_review(raw) => RefusedUntouched
       /\ \A raw \in InvalidAdd : call_add_prompt(raw) => RefusedUntouched]_vars

\* a name starting with a digit was refused while all three stores hold data
C13_Witness ==
    /\ last.op = "add_prompt"
    /\ last.args.name = <<"2", "x">>
    /\ last.resp.kind = "validation_error"
    /\ DOMAIN load_custom_prompts(promptfile) # {}
    /\ Stored # <<>>
    /\ journal # <<>>

(* ------------------------------ ea-prompts ----------------------------- *)

\* C5: ea_add_prompt with one of the five built-in names is rejected and
\* leaves the custom-prompt store as it was; ea_remove_prompt with a built-in
\* name and confirm=true is rejected and leaves the store and the built-in
\* catalog as they were.
FiveBuiltins ==
    { <<"c", "o", "d", "e", "-", "r", "e", "v", "i", "e", "w">>,
      <<"e", "x", "p", "l", "a", "i", "n", "-", "c", "o", "d", "e">>,
      <<"w", "r", "i", "t", "e", "-", "t", "e", "s", "t", "s">>,
      <<"r", "e", "f", "a", "c", "t", "o", "r">>,
      <<"d", "e", "b", "u", "g">> }

C5_AddRejected ==
    (last'.op = "add_prompt" /\ last'.args.name \in FiveBuiltins)
        => /\ last'.resp.kind = "error_builtin"
           /\ promptfile' = promptfile
           /\ builtin_prompts' = builtin_prompts

C5_RemoveRejected ==
    (/\ last'.op = "remove_prompt"
     /\ last'.args.confirm
     /\ last'.args.name \in FiveBuiltins)
        => /\ last'.resp.kind = "error_builtin"
           /\ promptfile' = promptfile
           /\ builtin_prompts' = builtin_prompts

C5_BuiltinProtection == [][C5_AddRejected /\ C5_RemoveRejected]_vars

\* the custom store as the next operation loads it
Custom == load_custom_prompts(promptfile)

\* C16: in every state reached from an empty custom store through
\* ea_add_prompt and ea_remove_prompt calls, no key of the persisted custom
\* store is a built-in name and the built-in catalog holds exactly its five
\* templates.
C16_NoBuiltinKey ==
    /\ DOMAIN promptfile.prompts \cap FiveBuiltins = {}
    /\ DOMAIN Custom \cap DOMAIN builtin_prompts = {}
    /\ DOMAIN builtin_prompts = FiveBuiltins
    /\ Cardinality(DOMAIN builtin_prompts) = 5
    /\ builtin_prompts = BUILTIN_PROMPTS

\* an add under a built-in name was just refused, after adds and a removal
\* that left one custom prompt in the file
C16_Witness ==
    /\ last.op = "add_prompt"
    /\ last.args.name \in FiveBuiltins
    /\ promptfile.st = "ok"
    /\ DOMAIN promptfile.prompts = {X2}

\* C17: ea_remove_prompt decides in this order: confirm=false asks for
\* confirmation and deletes nothing, whatever the name; else a built-in name
\* is refused as permanent; else a name absent from the custom store is
\* answered not-found, the store unchanged; else exactly that custom prompt
\* is deleted and the store saved.
C17_Decision ==
    last'.op = "remove_prompt" =>
        LET name == last'.args.name
        IN  IF ~last'.args.confirm
            THEN last'.resp.kind = "confirm_required" /\ promptfile' = promptfile
            ELSE IF name \in FiveBuiltins
            THEN last'.resp.kind = "error_builtin" /\ promptfile' = promptfile
            ELSE IF name \notin DOMAIN Custom
            THEN last'.resp.kind = "not_found" /\ promptfile' = promptfile
            ELSE /\ last'.resp.kind = "removed"
                 /\ promptfile'.st = "ok"
                 /\ DOMAIN promptfile'.prompts = DOMAIN Custom \ {name}
                 /\ \A k \in DOMAIN promptfile'.prompts :
                       promptfile'.prompts[k] = Custom[k]

C17_RemoveOrder == [][C17_Decision]_vars

\* one of two custom prompts was removed and the other is still stored
C17_Witness ==
    /\ last.op = "remove_prompt"
    /\ last.resp.kind = "removed"
    /\ last.args.name = MyPrompt
    /\ DOMAIN Custom = {X2}

\* C22: ea_add_prompt with a valid name that is already in the custom store
\* is not refused: it replaces the prompt stored under that name, the
\* number of custom prompts stays the same, and the store never holds two
\* prompts of one name.
C22_Replace ==
    (/\ last'.op = "add_prompt"
     /\ last'.args.name \notin FiveBuiltins
     /\ last'.args.name \in DOMAIN Custom)
        => LET name == last'.args.name
               after == load_custom_prompts(promptfile')
           IN  /\ last'.resp.kind = "added"
               /\ DOMAIN after = DOMAIN Custom
               /\ Cardinality(DOMAIN after) = Cardinality(DOMAIN Custom)
               /\ after[name].template = last'.args.template
               /\ after[name].arguments = ParseArguments(last'.args.arguments)
               /\ \A k \in DOMAIN after \ {name} : after[k] = Custom[k]

C22_OnePerName == \A k \in DOMAIN Custom : Custom[k].name = k

C22_AddReplaces == []C22_OnePerName /\ [][C22_Replace]_vars

\* my-prompt, stored with the first template, was added again with the
\* second: the store holds my-prompt and x2, my-prompt with the second
\* template and its two arguments
C22_Witness ==
    /\ last.op = "add_prompt"
    /\ last.resp.kind = "added"
    /\ last.existed
    /\ last.args.name = MyPrompt
    /\ DOMAIN Custom = {MyPrompt, X2}
    /\ Custom[MyPrompt].template = "template:two {code} {ctx}"
    /\ Len(Custom[MyPrompt].arguments) = 2
    /\ Custom[X2].template = "template:one"

\* a built-in name was refused while the store holds a custom prompt
C5_Witness ==
    /\ last.op \in {"add_prompt", "remove_prompt"}
    /\ last.args.name \in FiveBuiltins
    /\ last.resp.kind = "error_builtin"
    /\ DOMAIN load_custom_prompts(promptfile) # {}

====
